---- MODULE Spec2Model ----
(***************************************************************************)
(* A model of src/src/io/parse_html.py: parse_datetime (the timestamp      *)
(* normaliser) and parse_telegram_messages (the message extractor).        *)
(*                                                                         *)
(* Strings are sequences of one-character strings, so that the regular     *)
(* expressions, the formatting of the inputs and the digit parsing are     *)
(* computed character by character.  A run of the program is one call of   *)
(* parse_datetime on a string, or one call of parse_telegram_messages on   *)
(* a document.                                                             *)
(***************************************************************************)
EXTENDS Integers, Sequences, FiniteSets, TLC

VARIABLES
    date_str,     \* the argument of a direct parse_datetime call
    dt_pc,        \* "idle" | "call" | "returned" | "raised"
    dt_result,    \* the value parse_datetime returned (None or a datetime)
    dt_exc,       \* the exception that escaped parse_datetime, or "none"
    document,     \* the div nodes of the parsed document, in document order
    cursor,       \* index into message_divs of the block the loop is at
    messages,     \* the list of TelegramMessage built so far
    pc,           \* "idle" | "loop" | "done" | "raised"
    exc           \* the exception that escaped parse_telegram_messages

vars == <<date_str, dt_pc, dt_result, dt_exc, document, cursor, messages, pc, exc>>

(***************************************************************************)
(* Bounds of the model.                                                    *)
(***************************************************************************)
MaxSpaces == 2      \* longest whitespace run between two fields of an input
MaxTrailing == 1    \* most characters appended after the offset minutes
MaxBlocks == 2      \* most div nodes in a many-block document
MaxTextLen == 2     \* most child nodes of a text-body node

(***************************************************************************)
(* Characters and strings.                                                 *)
(***************************************************************************)
Digits == <<"0", "1", "2", "3", "4", "5", "6", "7", "8", "9">>

IsDigit(c) == \E i \in 1..10 : Digits[i] = c

DigitVal(c) == (CHOOSE i \in 1..10 : Digits[i] = c) - 1

\* The ASCII characters \s matches that the inputs use.
IsSpace(c) == c \in {" ", "\t", "\n"}

RECURSIVE Concat(_)
Concat(ss) == IF ss = <<>> THEN <<>> ELSE Head(ss) \o Concat(Tail(ss))

\* The text of a number as n decimal digits (how the inputs are written).
RECURSIVE Fmt(_, _)
Fmt(v, n) == IF n = 0 THEN <<>> ELSE Fmt(v \div 10, n - 1) \o <<Digits[(v % 10) + 1]>>

\* int() of a string of decimal digits.
RECURSIVE DigitsToInt(_)
DigitsToInt(s) ==
    IF s = <<>> THEN 0
    ELSE DigitsToInt(SubSeq(s, 1, Len(s) - 1)) * 10 + DigitVal(s[Len(s)])

\* int() of an optionally signed string of decimal digits, as int("+03").
int(s) ==
    IF s[1] = "-" THEN 0 - DigitsToInt(Tail(s))
    ELSE IF s[1] = "+" THEN DigitsToInt(Tail(s))
    ELSE DigitsToInt(s)

(***************************************************************************)
(* re.match of the pattern of parse_datetime:                              *)
(*   (\d{2}\.\d{2}\.\d{4})\s+(\d{2}:\d{2}:\d{2})\s+UTC([+-]\d{2}):(\d{2})  *)
(* An atom is <<"d", n>> (n digits), <<"lit", c>>, <<"s+">> or <<"sign">>. *)
(* The match is anchored at the start only, as re.match is.                *)
(***************************************************************************)
DatePattern ==
    << <<"d", 2>>, <<"lit", ".">>, <<"d", 2>>, <<"lit", ".">>, <<"d", 4>>,
       <<"s+">>,
       <<"d", 2>>, <<"lit", ":">>, <<"d", 2>>, <<"lit", ":">>, <<"d", 2>>,
       <<"s+">>,
       <<"lit", "U">>, <<"lit", "T">>, <<"lit", "C">>,
       <<"sign">>, <<"d", 2>>,
       <<"lit", ":">>,
       <<"d", 2>> >>

\* The position after the longest run of whitespace that starts at pos.
RECURSIVE SkipSpaces(_, _)
SkipSpaces(s, pos) ==
    IF pos <= Len(s) /\ IsSpace(s[pos]) THEN SkipSpaces(s, pos + 1) ELSE pos

\* The position after atom a matched at pos, or 0 when it does not match.
\* \s+ is greedy; the atom after it never matches whitespace, so the greedy
\* match is the only one.
MatchAtom(s, pos, a) ==
    IF a[1] = "d" THEN
        IF pos + a[2] - 1 <= Len(s) /\ \A i \in pos..(pos + a[2] - 1) : IsDigit(s[i])
        THEN pos + a[2] ELSE 0
    ELSE IF a[1] = "lit" THEN
        IF pos <= Len(s) /\ s[pos] = a[2] THEN pos + 1 ELSE 0
    ELSE IF a[1] = "sign" THEN
        IF pos <= Len(s) /\ s[pos] \in {"+", "-"} THEN pos + 1 ELSE 0
    ELSE
        IF pos <= Len(s) /\ IsSpace(s[pos]) THEN SkipSpaces(s, pos) ELSE 0

\* The positions after each atom of pat matched in turn from pos: a sequence
\* as long as pat, or <<>> when some atom does not match.
RECURSIVE MatchSeq(_, _, _)
MatchSeq(s, pos, pat) ==
    IF pat = <<>> THEN <<pos>>
    ELSE LET nxt == MatchAtom(s, pos, Head(pat))
         IN  IF nxt = 0 THEN <<>>
             ELSE LET rest == MatchSeq(s, nxt, Tail(pat))
                  IN  IF rest = <<>> THEN <<>> ELSE <<pos>> \o rest

\* re.match(...): [matched |-> FALSE], or the four groups of the match.
\* ends[k] is where atom k starts and ends[k + 1] where it ends.
ReMatch(s) ==
    LET ends == MatchSeq(s, 1, DatePattern)
    IN  IF ends = <<>> THEN [matched |-> FALSE]
        ELSE [matched    |-> TRUE,
              date_part  |-> SubSeq(s, ends[1], ends[6] - 1),
              time_part  |-> SubSeq(s, ends[7], ends[12] - 1),
              tz_hours   |-> SubSeq(s, ends[16], ends[18] - 1),
              tz_minutes |-> SubSeq(s, ends[19], ends[20] - 1)]

(***************************************************************************)
(* datetime.  A datetime is its proleptic Gregorian ordinal (day 1 is      *)
(* 0001-01-01), its second of the day, and the utcoffset of its tzinfo in  *)
(* seconds (a naive datetime has tzinfo None).                             *)
(***************************************************************************)
None == [present |-> FALSE]

IsLeap(y) == (y % 4 = 0) /\ ((y % 100 # 0) \/ (y % 400 = 0))

\* A month table that forgets the short months.
DaysInMonthAlways31(y, m) == 31

DaysInMonth(y, m) ==
    IF m = 2 THEN (IF IsLeap(y) THEN 29 ELSE 28)
    ELSE IF m \in {4, 6, 9, 11} THEN 30 ELSE 31

RECURSIVE DaysBeforeMonth(_, _)
DaysBeforeMonth(y, m) ==
    IF m = 1 THEN 0 ELSE DaysBeforeMonth(y, m - 1) + DaysInMonth(y, m - 1)

DaysBeforeYear(y) ==
    (y - 1) * 365 + ((y - 1) \div 4) - ((y - 1) \div 100) + ((y - 1) \div 400)

ToOrdinal(y, m, d) == DaysBeforeYear(y) + DaysBeforeMonth(y, m) + d

\* datetime.max is 9999-12-31T23:59:59.
MaxOrdinal == ToOrdinal(9999, 12, 31)

\* datetime(y, m, d, hh, mi, ss): a naive datetime, or ValueError.
NewDatetime(y, m, d, hh, mi, ss) ==
    IF /\ y \in 1..9999
       /\ m \in 1..12
       /\ d \in 1..DaysInMonth(y, m)
       /\ hh \in 0..23
       /\ mi \in 0..59
       /\ ss \in 0..59
    THEN [ok |-> TRUE,
          value |-> [present |-> TRUE, ordinal |-> ToOrdinal(y, m, d),
                     second |-> hh * 3600 + mi * 60 + ss, tzinfo |-> "naive",
                     utcoffset |-> 0]]
    ELSE [ok |-> FALSE, exc |-> "ValueError"]

\* datetime.strptime(f"{date_part} {time_part}", "%d.%m.%Y %H:%M:%S") on the
\* groups of the match (dd.dd.dddd and dd:dd:dd).  The directives accept, of
\* two digits, %d 01..31, %m 01..12, %H 00..23, %M 00..59, %S 00..61, and %Y
\* any four digits; the datetime is then constructed from the fields.
Strptime(date_part, time_part) ==
    LET d  == DigitsToInt(SubSeq(date_part, 1, 2))
        m  == DigitsToInt(SubSeq(date_part, 4, 5))
        y  == DigitsToInt(SubSeq(date_part, 7, 10))
        hh == DigitsToInt(SubSeq(time_part, 1, 2))
        mi == DigitsToInt(SubSeq(time_part, 4, 5))
        ss == DigitsToInt(SubSeq(time_part, 7, 8))
    IN  IF /\ d \in 1..31
           /\ m \in 1..12
           /\ hh \in 0..23
           /\ mi \in 0..59
           /\ ss \in 0..61
        THEN NewDatetime(y, m, d, hh, mi, ss)
        ELSE [ok |-> FALSE, exc |-> "ValueError"]

\* ZoneInfo(f"Etc/GMT{n:+d}"): the tz database holds Etc/GMT-14 .. Etc/GMT+12,
\* and Etc/GMT+n is n hours behind UTC.  Any other key raises
\* ZoneInfoNotFoundError, a KeyError.
ZoneInfoEtcGMT(n) ==
    IF n \in (0 - 14)..12
    THEN [ok |-> TRUE, utcoffset |-> (0 - n) * 3600]
    ELSE [ok |-> FALSE, exc |-> "ZoneInfoNotFoundError"]

\* local_dt.replace(tzinfo=zone): the same wall clock, now aware.
ReplaceTzinfo(local_dt, zone) ==
    [local_dt EXCEPT !.tzinfo = "zone", !.utcoffset = zone.utcoffset]

\* A conversion that keeps the local wall clock and its zone.
AstimezoneKeepsLocal(aware) == [ok |-> TRUE, value |-> aware]

\* aware.astimezone(ZoneInfo("UTC")): (aware - utcoffset) with tzinfo UTC;
\* OverflowError when the result leaves datetime.min .. datetime.max.
AstimezoneUTC(aware) ==
    LET total == aware.second - aware.utcoffset
        ord   == aware.ordinal + (total \div 86400)
        sec   == total % 86400
    IN  IF ord \in 1..MaxOrdinal
        THEN [ok |-> TRUE,
              value |-> [present |-> TRUE, ordinal |-> ord, second |-> sec,
                         tzinfo |-> "UTC", utcoffset |-> 0]]
        ELSE [ok |-> FALSE, exc |-> "OverflowError"]

\* The exceptions the except clause of parse_datetime catches.
Caught(e) == e \in {"ValueError", "TypeError"}

Returns(v) == [kind |-> "return", value |-> v, exc |-> "none"]

Raises(e) == IF Caught(e) THEN Returns(None)
             ELSE [kind |-> "raise", value |-> None, exc |-> e]

\* parse_datetime(date_str).  tz_offset (lines 39-41) is computed and never
\* used: the zone is built from the hour field alone.
parse_datetime(s) ==
    LET match == ReMatch(s)
    IN  IF ~match.matched THEN Returns(None)
        ELSE LET local == Strptime(match.date_part, match.time_part)
             IN  IF ~local.ok THEN Raises(local.exc)
                 ELSE LET zone == ZoneInfoEtcGMT(0 - int(match.tz_hours))
                      IN  IF ~zone.ok THEN Raises(zone.exc)
                          ELSE LET utc_dt == AstimezoneUTC(ReplaceTzinfo(local.value, zone))
                               IN  IF ~utc_dt.ok THEN Raises(utc_dt.exc)
                                   ELSE Returns(utc_dt.value)

(***************************************************************************)
(* The inputs of a direct parse_datetime call: timestamps written from     *)
(* numeric fields in the export's format, and deviations from that format. *)
(***************************************************************************)
Field(d, m, y, hh, mi, ss, sign, tzh, tzm) ==
    [d |-> d, m |-> m, y |-> y, hh |-> hh, mi |-> mi, ss |-> ss,
     sign |-> sign, tzh |-> tzh, tzm |-> tzm]

BaseShape ==
    [lead |-> <<>>, dsep |-> ".", gap1 |-> <<" ">>, tsep |-> ":", gap2 |-> <<" ">>,
     lit |-> <<"U", "T", "C">>, ydig |-> 4, hdig |-> 2, trail |-> <<>>]

MkInput(f, sh) ==
    Concat(<< sh.lead,
              Fmt(f.d, 2), <<sh.dsep>>, Fmt(f.m, 2), <<sh.dsep>>, Fmt(f.y, sh.ydig),
              sh.gap1,
              Fmt(f.hh, sh.hdig), <<sh.tsep>>, Fmt(f.mi, 2), <<sh.tsep>>, Fmt(f.ss, 2),
              sh.gap2,
              sh.lit, <<f.sign>>, Fmt(f.tzh, 2), <<":">>, Fmt(f.tzm, 2),
              sh.trail >>)

\* All sequences over S of length 0..n.
RECURSIVE SeqsUpTo(_, _)
SeqsUpTo(S, n) ==
    IF n = 0 THEN {<<>>}
    ELSE LET shorter == SeqsUpTo(S, n - 1)
         IN  shorter \cup {Append(q, x) : q \in shorter, x \in S}

Gaps == SeqsUpTo({" ", "\t"}, MaxSpaces)

Trails == SeqsUpTo({"x", "0", " ", "\n"}, MaxTrailing)

Shapes ==
    {[BaseShape EXCEPT !.gap1 = g, !.trail = t] : g \in Gaps, t \in Trails}
    \cup {[BaseShape EXCEPT !.gap2 = g] : g \in Gaps}
    \cup {[BaseShape EXCEPT !.dsep = c] : c \in {"-", "/", ":"}}
    \cup {[BaseShape EXCEPT !.tsep = c] : c \in {".", "-"}}
    \cup {[BaseShape EXCEPT !.lit = l] :
            l \in {<<>>, <<"G", "M", "T">>, <<"u", "t", "c">>, <<"U", "T", "C", " ">>}}
    \cup {[BaseShape EXCEPT !.ydig = n] : n \in {2, 3, 5}}
    \cup {[BaseShape EXCEPT !.hdig = n] : n \in {1, 3}}
    \cup {[BaseShape EXCEPT !.lead = l] : l \in {<<" ">>, <<"x">>}}

Times == {<<18, 43, 24>>, <<0, 0, 0>>, <<23, 59, 59>>, <<23, 0, 0>>,
          <<24, 0, 0>>, <<25, 0, 0>>, <<18, 60, 24>>, <<18, 43, 60>>, <<18, 43, 61>>}

\* Every date of the grid with a few offsets, and every offset of the grid on a
\* few dates (the two spec examples' date, and the first and last days of
\* datetime's range).
DateFields ==
    {Field(d, m, y, t[1], t[2], t[3], o[1], o[2], o[3]) :
        d \in {0, 1, 2, 28, 29, 30, 31, 32}, m \in {0, 1, 2, 4, 12, 13},
        y \in {0, 1, 1900, 2024, 2025, 9999},
        t \in {<<18, 43, 24>>, <<0, 0, 0>>},
        o \in {<<"+", 3, 0>>, <<"-", 5, 30>>, <<"+", 0, 0>>}}

OffsetFields ==
    {Field(dmy[1], dmy[2], dmy[3], t[1], t[2], t[3], sign, tzh, tzm) :
        dmy \in {<<2, 1, 2025>>, <<1, 1, 1>>, <<31, 12, 9999>>, <<31, 12, 2024>>},
        t \in Times, sign \in {"+", "-"},
        tzh \in {0, 3, 5, 12, 13, 14, 15, 23, 99}, tzm \in {0, 30, 59, 99}}

ShapeFields ==
    {Field(2, 1, 2025, 18, 43, 24, "+", 3, 0), Field(31, 2, 2025, 10, 0, 0, "+", 0, 0),
     Field(2, 1, 2025, 18, 43, 24, "-", 5, 30)}

DateInputs ==
    {MkInput(f, BaseShape) : f \in DateFields \cup OffsetFields}
    \cup {MkInput(f, sh) : f \in ShapeFields, sh \in Shapes}

(***************************************************************************)
(* The markup tree.  A node's children (kids) are a sequence of            *)
(*   [t |-> "chr", c |-> ch]      one character of a text node,            *)
(*   [t |-> "br"]                 a line-break element,                    *)
(*   [t |-> "b", kids |-> ...]    an inline element with children.         *)
(* Adjacent characters form one text node.                                 *)
(***************************************************************************)
Chr(c) == [t |-> "chr", c |-> c]

Br == [t |-> "br"]

Bold(kids) == [t |-> "b", kids |-> kids]

NoNode == [present |-> FALSE]

Node(kids) == [present |-> TRUE, kids |-> kids]

\* The output formatter of str(tag): &, < and > of a text node become entities.
Escape(c) ==
    IF c = "&" THEN <<"&", "a", "m", "p", ";">>
    ELSE IF c = "<" THEN <<"&", "l", "t", ";">>
    ELSE IF c = ">" THEN <<"&", "g", "t", ";">>
    ELSE <<c>>

\* The markup of a sequence of children; a line break is written <br/>.
RECURSIVE SerializeKids(_)
SerializeKids(kids) ==
    IF kids = <<>> THEN <<>>
    ELSE LET k == Head(kids)
             first == IF k.t = "chr" THEN Escape(k.c)
                      ELSE IF k.t = "br" THEN <<"<", "b", "r", "/", ">">>
                      ELSE <<"<", "b", ">">> \o SerializeKids(k.kids)
                           \o <<"<", "/", "b", ">">>
         IN  first \o SerializeKids(Tail(kids))

\* str(text_div): the node's own tags around the markup of its children.
StrTextDiv(text_div) ==
    <<"<", "d", "i", "v", " ", "c", "l", "a", "s", "s", "=", "\"", "t", "e", "x", "t", "\"", ">">>
    \o SerializeKids(text_div.kids)
    \o <<"<", "/", "d", "i", "v", ">">>

\* Where a match of <br\s*/> that starts at pos ends (the position after it),
\* or 0 when none starts there.
BrMatchEnd(s, pos) ==
    IF pos + 2 <= Len(s) /\ s[pos] = "<" /\ s[pos + 1] = "b" /\ s[pos + 2] = "r"
    THEN LET q == SkipSpaces(s, pos + 3)
         IN  IF q + 1 <= Len(s) /\ s[q] = "/" /\ s[q + 1] = ">" THEN q + 2 ELSE 0
    ELSE 0

\* A substitution that deletes the line break.
BrDeleted == <<>>

\* What re.sub puts in place of one match of <br\s*/>.
BrReplacement == <<"\n">>

\* re.sub(r"<br\s*/>", "\n", s) from pos on: every match, left to right.
RECURSIVE SubBr(_, _)
SubBr(s, pos) ==
    IF pos > Len(s) THEN <<>>
    ELSE LET e == BrMatchEnd(s, pos)
         IN  IF e # 0 THEN BrReplacement \o SubBr(s, e)
             ELSE <<s[pos]>> \o SubBr(s, pos + 1)

\* The position after the first c at or after pos, or Len(s) + 1.
RECURSIVE After(_, _, _)
After(s, pos, c) ==
    IF pos > Len(s) THEN pos
    ELSE IF s[pos] = c THEN pos + 1 ELSE After(s, pos + 1, c)

\* BeautifulSoup(html, "lxml").text from pos on: tags are dropped, entities
\* decoded, and the characters of all text nodes joined in document order.
RECURSIVE SoupText(_, _)
SoupText(s, pos) ==
    IF pos > Len(s) THEN <<>>
    ELSE IF s[pos] = "<" THEN SoupText(s, After(s, pos, ">"))
    ELSE IF s[pos] = "&" THEN
        LET e == After(s, pos, ";")
            name == SubSeq(s, pos + 1, e - 2)
            ch == IF name = <<"l", "t">> THEN "<"
                  ELSE IF name = <<"g", "t">> THEN ">" ELSE "&"
        IN  <<ch>> \o SoupText(s, e)
    ELSE <<s[pos]>> \o SoupText(s, pos + 1)

\* Lines 80-82: serialise, substitute the line breaks, parse again, flatten.
TextOfTextDiv(text_div) == SoupText(SubBr(StrTextDiv(text_div), 1), 1)

\* The text nodes under a node, in document order: maximal runs of characters.
RECURSIVE TextNodes(_, _)
TextNodes(kids, run) ==
    IF kids = <<>> THEN (IF run = <<>> THEN <<>> ELSE <<run>>)
    ELSE LET k == Head(kids)
         IN  IF k.t = "chr" THEN TextNodes(Tail(kids), Append(run, k.c))
             ELSE (IF run = <<>> THEN <<>> ELSE <<run>>)
                  \o (IF k.t = "b" THEN TextNodes(k.kids, <<>>) ELSE <<>>)
                  \o TextNodes(Tail(kids), <<>>)

\* str.strip(): whitespace removed at both ends.
RECURSIVE LStrip(_)
LStrip(s) == IF s # <<>> /\ IsSpace(Head(s)) THEN LStrip(Tail(s)) ELSE s

RECURSIVE RStrip(_)
RStrip(s) ==
    IF s # <<>> /\ IsSpace(s[Len(s)]) THEN RStrip(SubSeq(s, 1, Len(s) - 1)) ELSE s

Strip(s) == RStrip(LStrip(s))

\* node.get_text(strip=True): every text node stripped, the empty ones
\* dropped, the rest joined with the empty separator.
RECURSIVE JoinStripped(_)
JoinStripped(strings) ==
    IF strings = <<>> THEN <<>>
    ELSE Strip(Head(strings)) \o JoinStripped(Tail(strings))

GetTextStrip(node) == JoinStripped(TextNodes(node.kids, <<>>))

(***************************************************************************)
(* parse_telegram_messages.  A div of the document is                      *)
(*   [class   |-> its class attribute,                                     *)
(*    id      |-> None or [present |-> TRUE, value |-> the id attribute],  *)
(*    date    |-> NoNode or the "pull_right date details" div nested in it *)
(*                ([present, has_title, title]),                           *)
(*    text    |-> NoNode or the "text" div nested in it,                   *)
(*    details |-> NoNode or the "body details" div nested in it].          *)
(***************************************************************************)
MessageClasses == {"message default clearfix", "message service"}

\* soup.find_all("div", class_=[...]): the divs whose class attribute is one
\* of the two strings, in document order.
IsMessageDiv(div) == div.class \in MessageClasses

message_divs == SelectSeq(document, IsMessageDiv)

\* date_div.get("title", "")
GetTitle(date_div) == IF date_div.has_title THEN date_div.title ELSE <<>>

\* Lines 69-74: the outcome of the timestamp step of one block.
MessageDatetime(message) ==
    IF message.date.present /\ GetTitle(message.date) # <<>>
    THEN parse_datetime(GetTitle(message.date))
    ELSE Returns(None)

\* Lines 77-91: the text of one block.
TextContent(message) ==
    IF message.text.present THEN TextOfTextDiv(message.text)
    ELSE IF message.details.present THEN GetTextStrip(message.details)
    ELSE <<>>

\* TelegramMessage(message_id=..., datetime=..., text=...): message_id is a
\* required str field, so None fails validation.
TelegramMessage(message_id, datetime, text) ==
    IF message_id.present
    THEN [ok |-> TRUE,
          value |-> [message_id |-> message_id.value, datetime |-> datetime,
                     text |-> text]]
    ELSE [ok |-> FALSE, exc |-> "ValidationError"]

\* An insertion at the front of the list.
PrependMessage(list, m) == <<m>> \o list

\* messages.append(telegram_message)
AppendMessage(list, m) == Append(list, m)

\* One iteration of the loop over message_divs (lines 64-97).
ProcessBlock ==
    /\ pc = "loop"
    /\ cursor <= Len(message_divs)
    /\ LET message == message_divs[cursor]
           message_id == message.id
           dtm == MessageDatetime(message)
       IN  IF dtm.kind = "raise"
           THEN /\ pc' = "raised"
                /\ exc' = dtm.exc
                /\ UNCHANGED <<messages, cursor>>
           ELSE LET made == TelegramMessage(message_id, dtm.value, TextContent(message))
                IN  IF made.ok
                    THEN /\ messages' = AppendMessage(messages, made.value)
                         /\ cursor' = cursor + 1
                         /\ UNCHANGED <<pc, exc>>
                    ELSE /\ pc' = "raised"
                         /\ exc' = made.exc
                         /\ UNCHANGED <<messages, cursor>>
    /\ UNCHANGED <<date_str, dt_pc, dt_result, dt_exc, document>>

\* return messages (line 99), once every block has been processed.
ReturnMessages ==
    /\ pc = "loop"
    /\ cursor > Len(message_divs)
    /\ pc' = "done"
    /\ UNCHANGED <<date_str, dt_pc, dt_result, dt_exc, document, cursor, messages, exc>>

\* A direct call of parse_datetime(date_str).
CallParseDatetime ==
    /\ dt_pc = "call"
    /\ LET r == parse_datetime(date_str)
       IN  /\ dt_pc' = IF r.kind = "return" THEN "returned" ELSE "raised"
           /\ dt_result' = r.value
           /\ dt_exc' = r.exc
    /\ UNCHANGED <<date_str, document, cursor, messages, pc, exc>>

(***************************************************************************)
(* The documents.                                                          *)
(***************************************************************************)
Id(v) == [present |-> TRUE, value |-> v]

DateDiv(title) == [present |-> TRUE, has_title |-> TRUE, title |-> title]

DateDivNoTitle == [present |-> TRUE, has_title |-> FALSE, title |-> <<>>]

Div(class, id, date, text, details) ==
    [class |-> class, id |-> id, date |-> date, text |-> text, details |-> details]

TitleGood == MkInput(Field(2, 1, 2025, 18, 43, 24, "+", 3, 0), BaseShape)

TitleHalfHour == MkInput(Field(2, 1, 2025, 18, 43, 24, "-", 5, 30), BaseShape)

TitleFarEast == MkInput(Field(2, 1, 2025, 18, 43, 24, "+", 15, 0), BaseShape)

TitleNoUTC == MkInput(Field(2, 1, 2025, 18, 43, 24, "+", 3, 0), [BaseShape EXCEPT !.lit = <<>>])

HelloWorld == <<Chr("h"), Br, Chr("w")>>

ServiceText == <<Chr(" "), Chr("s"), Bold(<<Chr(" "), Chr("v")>>), Chr("\n")>>

\* A text node that spells a line-break marker.
LiteralBr == <<Chr("h"), Chr("<"), Chr("b"), Chr("r"), Chr("/"), Chr(">"), Br>>

\* The children of a text-body or body-details node: up to MaxTextLen of a
\* letter, a space, a newline, the characters the serialiser escapes, a line
\* break, and inline elements.
Kid == {Chr("h"), Chr(" "), Chr("\n"), Chr("<"), Chr(">"), Chr("&"), Br,
        Bold(<<Chr("w")>>), Bold(<<Br>>)}

Bodies == SeqsUpTo(Kid, MaxTextLen) \cup {HelloWorld, ServiceText, LiteralBr}

\* The blocks of the many-block documents: both variants and two classes that
\* the selector skips, with and without an id, with each kind of timestamp
\* and each combination of text sources.
Sources ==
    {<<DateDiv(TitleGood), Node(HelloWorld), Node(ServiceText)>>,
     <<NoNode, NoNode, Node(ServiceText)>>,
     <<DateDiv(TitleFarEast), Node(HelloWorld), NoNode>>,
     <<DateDiv(TitleNoUTC), NoNode, NoNode>>,
     <<DateDivNoTitle, Node(<<Chr(" "), Br>>), NoNode>>,
     <<DateDiv(TitleHalfHour), NoNode, Node(<<Chr("h")>>)>>}

Blocks ==
    {Div(c, i, src[1], src[2], src[3]) :
        c \in MessageClasses, i \in {None, Id("message1"), Id("message2")}, src \in Sources}
    \cup {Div(c, Id("message3"), NoNode, Node(HelloWorld), NoNode) :
            c \in {"message default clearfix joined", "page_header"}}

\* One-block documents over every body, as text body and as body details, and
\* over every timestamp input.
RichBlocks ==
    {Div(c, Id("message1"), NoNode, Node(b), d) :
        c \in MessageClasses, b \in Bodies, d \in {NoNode, Node(ServiceText)}}
    \cup {Div("message service", Id("message1"), NoNode, NoNode, Node(b)) : b \in Bodies}
    \cup {Div("message default clearfix", Id("message1"), DateDiv(t), NoNode, NoNode) :
            t \in {MkInput(f, sh) : f \in ShapeFields, sh \in Shapes}}

Documents == SeqsUpTo(Blocks, MaxBlocks) \cup {<<b>> : b \in RichBlocks}

(***************************************************************************)
(* The specification.                                                      *)
(***************************************************************************)
Init ==
    /\ dt_result = None
    /\ dt_exc = "none"
    /\ cursor = 1
    /\ messages = <<>>
    /\ exc = "none"
    /\ \/ /\ date_str \in DateInputs
          /\ dt_pc = "call"
          /\ document = <<>>
          /\ pc = "idle"
       \/ /\ date_str = <<>>
          /\ dt_pc = "idle"
          /\ document \in Documents
          /\ pc = "loop"

Next == CallParseDatetime \/ ProcessBlock \/ ReturnMessages

Spec == Init /\ [][Next]_vars

(***************************************************************************)
(* What the claims speak of, stated without the operators of the code above.*)
(***************************************************************************)
\* s is DD.MM.YYYY HH:MM:SS UTC+-HH:MM over its full length.
ExactForm(s) ==
    /\ Len(s) = 29
    /\ \A i \in {1, 2, 4, 5, 7, 8, 9, 10, 12, 13, 15, 16, 18, 19, 25, 26, 28, 29} :
          s[i] \in {"0", "1", "2", "3", "4", "5", "6", "7", "8", "9"}
    /\ s[3] = "." /\ s[6] = "."
    /\ s[11] = " " /\ s[20] = " "
    /\ s[14] = ":" /\ s[17] = ":" /\ s[27] = ":"
    /\ s[21] = "U" /\ s[22] = "T" /\ s[23] = "C"
    /\ s[24] \in {"+", "-"}

Num2(s, i) == DigitVal(s[i]) * 10 + DigitVal(s[i + 1])

\* The fields of a string of the exact form.
FieldsOf(s) ==
    [d |-> Num2(s, 1), m |-> Num2(s, 4), y |-> Num2(s, 7) * 100 + Num2(s, 9),
     hh |-> Num2(s, 12), mi |-> Num2(s, 15), ss |-> Num2(s, 18),
     sign |-> IF s[24] = "-" THEN 0 - 1 ELSE 1, tzh |-> Num2(s, 25), tzm |-> Num2(s, 28)]

MonthLengths == <<31, 28, 31, 30, 31, 30, 31, 31, 30, 31, 30, 31>>

LeapYear(y) == y % 400 = 0 \/ (y % 4 = 0 /\ y % 100 # 0)

CalendarValid(f) ==
    /\ f.y >= 1
    /\ f.m >= 1 /\ f.m <= 12
    /\ f.d >= 1
    /\ f.d <= MonthLengths[f.m] + (IF f.m = 2 /\ LeapYear(f.y) THEN 1 ELSE 0)
    /\ f.hh <= 23 /\ f.mi <= 59 /\ f.ss <= 59

OffsetInRange(f) == f.tzh <= 23 /\ f.tzm <= 59

DtEnded == dt_pc \in {"returned", "raised"}

Ended == pc \in {"done", "raised"}

\* The instant of a present result, as <<ordinal, second of the day>>.
Instant(v) == <<v.ordinal, v.second>>

\* Local date-time f minus the signed full offset of f.
LocalMinusFullOffset(f) ==
    LET total == (f.hh * 3600 + f.mi * 60 + f.ss) - f.sign * (f.tzh * 3600 + f.tzm * 60)
    IN  <<ToOrdinal(f.y, f.m, f.d) + (total \div 86400), total % 86400>>

IsUTC(v) == v.tzinfo = "UTC" /\ v.utcoffset = 0

\* The text of a node: its characters in document order, a line break as one
\* newline, all other markup dropped.
RECURSIVE BreaksAsNewlines(_)
BreaksAsNewlines(kids) ==
    IF kids = <<>> THEN <<>>
    ELSE LET k == Head(kids)
         IN  (IF k.t = "chr" THEN <<k.c>>
              ELSE IF k.t = "br" THEN <<"\n">>
              ELSE BreaksAsNewlines(k.kids))
             \o BreaksAsNewlines(Tail(kids))

\* The flattened text of a node: its characters in document order.
RECURSIVE Flattened(_)
Flattened(kids) ==
    IF kids = <<>> THEN <<>>
    ELSE LET k == Head(kids)
         IN  (IF k.t = "chr" THEN <<k.c>>
              ELSE IF k.t = "br" THEN <<>>
              ELSE Flattened(k.kids))
             \o Flattened(Tail(kids))

White(c) == c = " " \/ c = "\t" \/ c = "\n"

\* s without the whitespace at its two ends.
Trimmed(s) ==
    IF \A i \in 1..Len(s) : White(s[i]) THEN <<>>
    ELSE LET first == CHOOSE i \in 1..Len(s) : ~White(s[i]) /\ \A j \in 1..(i - 1) : White(s[j])
             last  == CHOOSE i \in 1..Len(s) : ~White(s[i]) /\ \A j \in (i + 1)..Len(s) : White(s[j])
         IN  SubSeq(s, first, last)

\* The text the fixed priority of the claim gives a block.
PriorityText(div) ==
    IF div.text.present THEN BreaksAsNewlines(div.text.kids)
    ELSE IF div.details.present THEN Trimmed(Flattened(div.details.kids))
    ELSE <<>>

\* The divs of the document with one of the two message classes, by position.
MessagePositions == {i \in 1..Len(document) : document[i].class \in MessageClasses}

(***************************************************************************)
(* The claims.                                                             *)
(***************************************************************************)
Example1 == MkInput(Field(2, 1, 2025, 18, 43, 24, "+", 3, 0), BaseShape)

Example2 == MkInput(Field(2, 1, 2025, 18, 43, 24, "-", 5, 30), BaseShape)

\* C1: for every string of the exact form with a calendar-valid date and time
\* and an offset of at most 23h59m, parse_datetime returns a present instant
\* equal to the local date-time minus the signed full offset (hours and
\* minutes); the -05:30 example gives 2025-01-03T00:13:24Z.
C1_LocalMinusFullOffset ==
    (/\ DtEnded
     /\ ExactForm(date_str)
     /\ CalendarValid(FieldsOf(date_str))
     /\ OffsetInRange(FieldsOf(date_str)))
    => /\ dt_pc = "returned"
       /\ dt_result.present
       /\ Instant(dt_result) = LocalMinusFullOffset(FieldsOf(date_str))
       /\ date_str = Example1
            => Instant(dt_result) = <<ToOrdinal(2025, 1, 2), 15 * 3600 + 43 * 60 + 24>>
       /\ date_str = Example2
            => Instant(dt_result) = <<ToOrdinal(2025, 1, 3), 0 * 3600 + 13 * 60 + 24>>

\* C2: parse_datetime is total: every call ends by returning, and no
\* exception escapes it.
C2_NoExceptionEscapes == dt_pc # "raised" /\ dt_exc = "none"

\* C3: parse_datetime returns absent for every string that is not exactly of
\* the form DD.MM.YYYY HH:MM:SS UTC+-HH:MM over its full length.
C3_AbsentUnlessExactForm ==
    (DtEnded /\ ~ExactForm(date_str)) => (dt_pc = "returned" /\ ~dt_result.present)

\* C4: for every string of the pattern whose date or time fields are not
\* calendar-valid, parse_datetime returns absent and raises nothing.
C4_InvalidCalendarAbsent ==
    (DtEnded /\ ExactForm(date_str) /\ ~CalendarValid(FieldsOf(date_str)))
    => (dt_pc = "returned" /\ dt_exc = "none" /\ ~dt_result.present)

C4_Witness ==
    /\ dt_pc = "returned"
    /\ date_str = MkInput(Field(31, 2, 2025, 10, 0, 0, "+", 0, 0), BaseShape)
    /\ ~dt_result.present

\* C5: whatever the timestamp strings and text sources of the blocks are, the
\* call returns, with exactly one record per message block (here over the
\* documents all of whose message blocks have an id).
C5_OneRecordPerBlock ==
    (Ended /\ \A i \in MessagePositions : document[i].id.present)
    => (pc = "done" /\ Len(messages) = Cardinality(MessagePositions))

\* C6: a message block without an id attribute does not abort the call: over
\* the documents none of whose timestamps makes parse_datetime raise, the
\* call returns one record per message block.
C6_MissingIdKeepsRecords ==
    (Ended /\ \A i \in MessagePositions : MessageDatetime(document[i]).kind = "return")
    => (pc = "done" /\ Len(messages) = Cardinality(MessagePositions))

\* The k-th message block of the document: the one with k - 1 message blocks
\* before it.
KthMessage(k) ==
    document[CHOOSE i \in MessagePositions :
                Cardinality({j \in MessagePositions : j < i}) = k - 1]

\* C7: the records are in the document order of their blocks: at every point
\* of the loop, and so in the returned list, the i-th record carries the id
\* of the i-th message block, whatever the variants; the returned list has a
\* record for every message block.
C7_DocumentOrder ==
    /\ Len(messages) <= Cardinality(MessagePositions)
    /\ \A i \in 1..Len(messages) :
          /\ KthMessage(i).id.present
          /\ messages[i].message_id = KthMessage(i).id.value
    /\ pc = "done" => Len(messages) = Cardinality(MessagePositions)

C7_Witness ==
    /\ pc = "done"
    /\ Len(messages) >= 2
    /\ messages[1].message_id = "message2"
    /\ messages[2].message_id = "message1"
    /\ KthMessage(1).class = "message service"
    /\ KthMessage(2).class = "message default clearfix"

\* C8: every present timestamp, in a record of parse_telegram_messages and as
\* a result of parse_datetime, carries UTC with a zero offset, never the
\* local offset of its source string.
C8_TimestampsAreUTC ==
    /\ (dt_pc = "returned" /\ dt_result.present) => IsUTC(dt_result)
    /\ \A i \in 1..Len(messages) :
          messages[i].datetime.present => IsUTC(messages[i].datetime)

C8_Witness ==
    /\ pc = "done"
    /\ Len(messages) >= 1
    /\ KthMessage(1).date.present
    /\ KthMessage(1).date.title = Example1
    /\ messages[1].datetime.present
    /\ IsUTC(messages[1].datetime)

\* C9: the text of a record whose block has a text-body node is the node's
\* text with every line break as one newline and every other character,
\* leading and trailing whitespace included, kept in order.
C9_BreaksBecomeNewlines ==
    \A i \in 1..Len(messages) :
        KthMessage(i).text.present
        => messages[i].text = BreaksAsNewlines(KthMessage(i).text.kids)

C9_Witness ==
    /\ pc = "done"
    /\ Len(messages) = 1
    /\ KthMessage(1).text.present
    /\ KthMessage(1).text.kids = HelloWorld
    /\ messages[1].text = <<"h", "\n", "w">>

\* C10: the text of a record is chosen by the fixed priority: the
\* break-converted text of the text-body node if there is one, else the
\* whitespace-trimmed flattened text of the body-details node if there is
\* one, else the empty string.
C10_TextSourcePriority ==
    \A i \in 1..Len(messages) : messages[i].text = PriorityText(KthMessage(i))

====
